---- MODULE Spec2Model ----
(***************************************************************************)
(* Model of the Raven auto clicker: the AdvancedAntiDetection movement and *)
(* timing generators (advanced_features.py, raven_autoclicker_complete.py) *)
(* and the ClickWorker click loop (raven_autoclicker_complete.py,          *)
(* raven_autoclicker.py).                                                  *)
(*                                                                         *)
(* Numbers.  Pixel coordinates are integers.  The floats of the source are *)
(* kept as exact fractions: a position is numerator/denominator and int()  *)
(* is truncation toward zero (Trunc).  Random draws are in thousandths of  *)
(* a pixel ("milli"), delays in units of 1/10000 millisecond.  math.sin is *)
(* Bhaskara's rational approximation (error below 0.002).                  *)
(***************************************************************************)
EXTENDS Integers, Sequences, FiniteSets, TLC

(***************************************************************************)
(* Bounds of the model.                                                    *)
(***************************************************************************)
MaxCoord == 50        \* largest |coordinate| of a start or end point
MaxBaseDelay == 3     \* base delays 0..MaxBaseDelay ms are tried, besides the GUI's extremes
MaxClicks == 2        \* largest max_clicks of a profile
MaxDuration == 2      \* largest duration_limit of a profile, in clock ticks
MaxClock == 2         \* the clock stops advancing here
MaxSessions == 2      \* click sessions started one after the other
MaxThreads == 3       \* click threads start_clicking_thread may spawn
MaxAfterStop == 2     \* clicks counted per thread after a stop request
MaxCallers == 2       \* threads calling the generator at the same time
MaxSyncs == 2         \* sync threads start_sync may spawn
MaxActions == 2       \* actions of a macro
MaxLoops == 2         \* largest loop_count of a playback
MaxPlaybacks == 2     \* start_playback calls that start a thread
MaxEmits == 1         \* playback_stopped signals counted per playback
MaxPlugins == 2       \* plugin files in the plugin directory
MaxTasks == 2         \* tasks of the scheduler
MaxDay == 8           \* days the scheduler's clock runs
MaxTriggers == 2      \* triggers counted per task
MaxDelayMs == 20      \* largest delay passed to set_click_delay, in ms

(***************************************************************************)
(* Arithmetic helpers.                                                     *)
(***************************************************************************)
Abs(x) == IF x < 0 THEN -x ELSE x

Sgn(x) == IF x < 0 THEN -1 ELSE IF x > 0 THEN 1 ELSE 0

\* int(num/den) of Python for den > 0: truncation toward zero.
Trunc(num, den) == IF num >= 0 THEN num \div den ELSE -((-num) \div den)

\* math.sin of d degrees, times 1000 (Bhaskara I), d in 0..359.
SinDeg(d) ==
  IF d <= 180
    THEN (4000 * d * (180 - d)) \div (40500 - d * (180 - d))
    ELSE -((4000 * (d - 180) * (360 - d)) \div (40500 - (d - 180) * (360 - d)))

CosDeg(d) == SinDeg((d + 90) % 360)

\* math.sin(t * math.pi) for t = k/n, times 1000: the same approximation
\* with the angle 180*k/n kept as a fraction.
SinPi(k, n) == (16000 * k * (n - k)) \div (5 * n * n - 4 * k * (n - k))

\* Smallest power of two >= n, for 1 <= n.
RECURSIVE Pow2Ceil(_)
Pow2Ceil(n) == IF n <= 1 THEN 1 ELSE 2 * Pow2Ceil((n + 1) \div 2)

(***************************************************************************)
(* Random draws.  random.uniform(a, b) is a + (b-a)*random() with random() *)
(* in [0, 1): the lower end is drawn, the upper end is not.                *)
(* random.gauss(0, 2) is 2*cos(2*pi*u)*sqrt(-2*log(1 - random())); with    *)
(* the 53-bit random() of the interpreter 1 - random() >= 2^-53, so the    *)
(* draw lies within 2*sqrt(106*ln 2) = 17.143 of zero.                     *)
(***************************************************************************)
GaussMax == 17143

\* random.uniform(-1, 1), random.uniform(-50, 50), in milli.
MicroJitter == {-1000, 0, 999}
BezierOffsets == {-50000, 0, 49999}

\* random.gauss(0, 2) in milli: the extremes, the centre and draws on both
\* sides of 5 and 6 pixels.
GaussDrawsSigma20 == {-10 * GaussMax, -50010, 0, 60000, 10 * GaussMax}
GaussDraws == {-GaussMax, -5001, 0, 6000, GaussMax}

\* random.uniform(0, 2*math.pi) in degrees, random.uniform(5, 15) in milli.
DriftAngles == {0, 45, 90, 135, 180, 225, 270, 315}
DriftMagnitudes == {5000, 10000, 14999}

(***************************************************************************)
(* State.                                                                  *)
(***************************************************************************)
VARIABLES
  movement_patterns,  \* AdvancedAntiDetection.movement_patterns
  timing_variance,    \* AdvancedAntiDetection.timing_variance
  \* one call of generate_movement_path
  gpc,                \* "idle", "loop" (inside the pattern's for loop), "returned"
  pattern,            \* the pattern random.choice picked, "none" before the call
  start, end,         \* the arguments, <<x, y>>
  steps,              \* the pattern's drawn step count
  i,                  \* the loop index of the next waypoint
  draw,               \* the pattern's per-call draws
  path_len,           \* len(path)
  path_last,          \* path[-1], the waypoint appended last
  pauses,             \* time.sleep calls made by this call (hesitation)
  \* one call of generate_timing_delay
  tpc,                \* "idle", "returned"
  base_delay,         \* the argument, in ms
  now,                \* time.time() in 1/100 s, modulo the patterns' periods
  timing,             \* the pattern random.choice picked
  delay,              \* the value returned, in 1/10000 ms
  \* ClickWorker and the thread running ClickWorker.start_clicking
  wpc,                \* the thread's position in start_clicking
  profile,            \* ClickWorker.profile
  is_running,         \* ClickWorker.is_running
  should_stop,        \* ClickWorker.should_stop
  click_count,        \* ClickWorker.click_count
  total_clicks,       \* ClickWorker.total_clicks
  start_time,         \* ClickWorker.start_time
  clock,              \* time.time(), in ticks of one second
  status,             \* the last message of status_update, "" if none
  finished,           \* finished.emit() calls of this worker
  exit_reason,        \* the statement that ended the while loop, "" inside it
  clicks_after_stop,  \* clicks performed while should_stop was set
  sessions,           \* ClickWorker objects created so far
  iteration,          \* locals and calls of the current loop iteration
  \* AutoClicker and the threads running AutoClicker.start_clicking
  clicking,           \* AutoClicker.clicking
  apc,                \* each thread's position in start_clicking
  stopped,            \* stop_clicking ran while the thread was in its loop
  after_stop,         \* clicks the thread performed since then
  failsafed,          \* a FailSafeException was raised while the thread was in its loop
  after_failsafe,     \* clicks the thread performed since then
  \* threads calling one AdvancedAntiDetection object
  calls,              \* each caller's call in progress
  \* CloudSyncManager and the threads running _perform_sync
  config,             \* CloudSyncManager.config, NoConfig until set_config
  is_syncing,         \* CloudSyncManager.is_syncing
  local_data,         \* CloudSyncManager.local_data
  spc,                \* each sync thread's position in _perform_sync
  emitted,            \* the success flags of sync_completed each run has emitted
  \* MacroPlayer and the threads running _play_actions
  actions,            \* MacroPlayer.actions, the action types in list order
  is_playing,         \* MacroPlayer.is_playing
  current_action_index, \* MacroPlayer.current_action_index
  loop_count,         \* MacroPlayer.loop_count
  current_loop,       \* MacroPlayer.current_loop
  playback_thread,    \* MacroPlayer.playback_thread, 0 for None
  ppc,                \* each playback thread's position in _play_actions
  loop_i,             \* each playback thread's index i in the for loop
  loop_read,          \* the current_loop a thread has read for its += 1
  executed,           \* the action executions each playback has begun
  in_order,           \* each of them was of the action following the one before
  stops_emitted,      \* playback_stopped.emit() calls, per playback they end
  stop_called,        \* stop_playback has been called
  stopping,           \* stop_playback is between its join and its emit
  \* PluginManager and the plugin directory
  plugins,            \* the names in PluginManager.plugins
  plugin_info,        \* the names in PluginManager.plugin_info
  plugin_configs,     \* PluginManager.plugin_configs, "absent" for a name not in it
  config_files,       \* the <name>_config.json files, "absent" for none
  plugin_result,      \* what the last call of the manager did
  \* TaskScheduler
  tasks,              \* TaskScheduler.tasks
  sched_now,          \* QDateTime.currentDateTime(), in days
  \* AutoClicker settings
  click_delay,        \* AutoClicker.click_delay, in ms
  click_button,       \* AutoClicker.click_button
  button_call         \* the last set_click_button call: its argument, click_button before it

poolVars == <<movement_patterns, timing_variance>>
pathVars == <<gpc, pattern, start, end, steps, i, draw, path_len, path_last, pauses>>
timingVars == <<tpc, base_delay, now, timing, delay>>
workerVars ==
  <<wpc, profile, is_running, should_stop, click_count, total_clicks, start_time, clock,
    status, finished, exit_reason, clicks_after_stop, sessions, iteration>>
autoVars == <<clicking, apc, stopped, after_stop, failsafed, after_failsafe>>
callVars == <<calls>>
syncVars == <<config, is_syncing, local_data, spc, emitted>>
macroVars ==
  <<actions, is_playing, current_action_index, loop_count, current_loop, playback_thread,
    ppc, loop_i, loop_read, executed, in_order, stops_emitted, stop_called, stopping>>
pluginVars == <<plugins, plugin_info, plugin_configs, config_files, plugin_result>>
schedVars == <<tasks, sched_now>>
setVars == <<click_delay, click_button, button_call>>
extVars == <<macroVars, pluginVars, schedVars, setVars>>
coreVars == <<poolVars, pathVars, timingVars, workerVars, autoVars, callVars, syncVars>>
vars == <<coreVars, extVars>>
exceptMacro == <<coreVars, pluginVars, schedVars, setVars>>
exceptPlugins == <<coreVars, macroVars, schedVars, setVars>>
exceptScheduler == <<coreVars, macroVars, pluginVars, setVars>>
exceptSettings == <<coreVars, macroVars, pluginVars, schedVars>>

(***************************************************************************)
(* ClickWorker.__init__ followed by set_profile(p): a worker whose thread  *)
(* has not entered start_clicking.  start_time is None, kept as 0.         *)
(***************************************************************************)
\* delay_spinbox: 1..10000 ms, 100 at start; radius_spinbox: 1..100 px, 10
\* at start
DelayMin == 1
DelayDefault == 100
DelayMax == 10000
RadiusMin == 1
RadiusDefault == 10
RadiusMax == 100

\* sessions that differ in their limits and switches
Profiles ==
  [max_clicks : 0..MaxClicks, duration_limit : 0..MaxDuration,
   anti_detect : BOOLEAN, human_movement : BOOLEAN,
   base_delay : {DelayDefault}, random_position : {FALSE},
   position_radius : {RadiusDefault}]

\* sessions that differ in what one iteration of the loop does
IterationProfiles ==
  [max_clicks : {0, 1}, duration_limit : {0},
   anti_detect : BOOLEAN, human_movement : BOOLEAN,
   base_delay : {DelayMin, DelayDefault}, random_position : BOOLEAN,
   position_radius : {RadiusMin, RadiusDefault, RadiusMax}]

DefaultProfile ==
  [max_clicks |-> 0, duration_limit |-> 0, anti_detect |-> TRUE, human_movement |-> TRUE,
   base_delay |-> DelayDefault, random_position |-> FALSE,
   position_radius |-> RadiusDefault]

\* what the current iteration of the loop has done so far: the locals
\* current_pos, click_pos, path (its length and last waypoint) and delay,
\* and the calls made (generate_movement_path, moveTo, click,
\* generate_timing_delay, time.sleep).  The movement part is kept up to the
\* click, the timing part from the sleep to the next loop test.
NoIteration ==
  [current_pos |-> <<0, 0>>, click_pos |-> <<0, 0>>,
   path_calls |-> 0, path_len |-> 0, path_end |-> <<0, 0>>, moves |-> 0,
   clicks |-> 0, click_at |-> <<0, 0>>,
   timing_calls |-> 0, delay |-> 0, sleeps |-> 0]

WorkerCreated(p) ==
  /\ wpc = "created"
  /\ profile = p
  /\ is_running = FALSE
  /\ should_stop = FALSE
  /\ click_count = 0
  /\ total_clicks = 0
  /\ start_time = 0
  /\ status = ""
  /\ finished = 0
  /\ exit_reason = ""
  /\ clicks_after_stop = 0
  /\ iteration = NoIteration

WorkerIdle == WorkerCreated(DefaultProfile) /\ clock = 0 /\ sessions = 1

(***************************************************************************)
(* AutoClicker.__init__: clicking is False and no click thread exists.     *)
(* apc is the position of each thread start_clicking_thread may spawn;     *)
(* stopped[t] records that stop_clicking ran while t was in its loop and   *)
(* after_stop[t] counts the clicks t has performed since; failsafed and    *)
(* after_failsafe do the same for a FailSafeException of any thread.       *)
(***************************************************************************)
Threads == 1..MaxThreads

\* the threads that call one generator object; no thread is inside one of
\* its methods
Callers == 1..MaxCallers

NoCall == [pc |-> "idle", method |-> "none", pattern |-> "none", value |-> <<>>]

CallersIdle == calls = [t \in Callers |-> NoCall]

\* CloudSyncManager.__init__
SyncThreads == 1..MaxSyncs

EmptyDict == [k \in {} |-> 0]

\* self.config = None
NoConfig == [is_set |-> FALSE, api_key |-> "", auto_sync |-> FALSE]

SyncCreated ==
  /\ config = NoConfig
  /\ is_syncing = FALSE
  /\ local_data = EmptyDict
  /\ spc = [t \in SyncThreads |-> "none"]
  /\ emitted = [t \in SyncThreads |-> <<>>]

AutoCreated ==
  /\ clicking = FALSE
  /\ apc = [t \in Threads |-> "none"]
  /\ stopped = [t \in Threads |-> FALSE]
  /\ after_stop = [t \in Threads |-> 0]
  /\ failsafed = [t \in Threads |-> FALSE]
  /\ after_failsafe = [t \in Threads |-> 0]

(***************************************************************************)
(* MacroPlayer.__init__ followed by set_actions: no playback thread,       *)
(* loop_count 1.  An action is kept by its type; a click is the type whose *)
(* execution calls pyautogui, a wait only sleeps.                          *)
(***************************************************************************)
Players == 1..MaxPlaybacks

ActionLists ==
  UNION {[1..n -> {"click", "wait"}] : n \in 1..MaxActions}

MacroCreated(list) ==
  /\ actions = list
  /\ is_playing = FALSE
  /\ current_action_index = 0
  /\ loop_count = 1
  /\ current_loop = 0
  /\ playback_thread = 0
  /\ ppc = [t \in Players |-> "none"]
  /\ loop_i = [t \in Players |-> 0]
  /\ loop_read = [t \in Players |-> 0]
  /\ executed = [t \in Players |-> 0]
  /\ in_order = [t \in Players |-> TRUE]
  /\ stops_emitted = [t \in Players |-> 0]
  /\ stop_called = FALSE
  /\ stopping = FALSE

MacroIdle == MacroCreated(<<"click">>)

\* PluginManager.__init__: three empty registries; no config file yet
PluginNames == 1..MaxPlugins

PluginsCreated ==
  /\ plugins = {}
  /\ plugin_info = {}
  /\ plugin_configs = [n \in PluginNames |-> "absent"]
  /\ config_files = [n \in PluginNames |-> "absent"]
  /\ plugin_result = "created"

\* TaskScheduler.__init__: no task
SchedulerIdle ==
  /\ tasks = <<>>
  /\ sched_now = 0

\* AutoClicker.__init__: click_delay = 0.1, click_button = 'left'
NotANumber == [nan |-> TRUE, ms |-> 0]

Millis(m) == [nan |-> FALSE, ms |-> m]

SettingsCreated ==
  /\ click_delay = Millis(100)
  /\ click_button = "left"
  /\ button_call = [arg |-> "left", before |-> "left"]

\* the objects a specification of the generators, the click loops, the
\* callers or the cloud synchronization leaves alone
ExtIdle ==
  /\ MacroIdle
  /\ PluginsCreated
  /\ SchedulerIdle
  /\ SettingsCreated

(***************************************************************************)
(* AdvancedAntiDetection.__init__                                          *)
(***************************************************************************)
load_movement_patterns == <<"bezier", "jitter", "acceleration", "hesitation", "drift">>

load_timing_patterns == <<"rhythm", "fatigue", "distraction", "focus">>

\* random.choice(seq)
Choice(seq) == {seq[k] : k \in 1..Len(seq)}

InitPools ==
  /\ movement_patterns = load_movement_patterns
  /\ timing_variance = load_timing_patterns

(***************************************************************************)
(* The movement patterns: waypoint number k of a path of n steps.          *)
(***************************************************************************)
\* random.randint(lo, hi) of each pattern
StepRangeOfBezier(p) == 8..15
StepRange(p) ==
  CASE p = "bezier" -> 8..15
    [] p = "jitter" -> 10..20
    [] p = "acceleration" -> 12..18
    [] p = "hesitation" -> 15..25
    [] p = "drift" -> 10..16

\* range(steps + 1): the number of loop iterations, one waypoint each
RangeLenReturnInLoop(n) == 1
RangeLenExclusive(n) == n
RangeLen(n) == n + 1

\* start + (end - start) * t for t = k/n, times n
LerpDropStart(s, e, k, n) == (e - s) * k
Lerp(s, e, k, n) == s * n + (e - s) * k

\* t = i / steps is an exact float when i/steps is a multiple of 1/16
\* (steps <= 25), and so is everything computed from it.
ExactT(k, n) == \E j \in {1, 2, 4, 8, 16} : (k * j) % n = 0

\* int(x) for a float x whose exact value is num/den.  The float differs
\* from num/den by rounding only, far less than the distance of a
\* non-integer num/den to the next integer: int(x) is the truncation of
\* num/den, except that a float just inside a non-zero integer value
\* truncates to the integer before it.
IntOf(num, den, exact) ==
  LET v == Trunc(num, den)
  IN IF exact \/ v = 0 \/ num % den # 0 THEN {v} ELSE {v, v - Sgn(v)}

\* One coordinate of the cubic Bezier point plus micro-jitter; s, e in
\* pixels, off and noise in milli.  control1 = mid + off and
\* control2 = mid - off/2 with mid = (s + e)/2, all kept doubled.
BezierCoord(s, e, k, n, off, noise) ==
  LET mid2 == 1000 * (s + e)
      control1 == mid2 + 2 * off
      control2 == mid2 - off
      u == n - k
      num == u * u * u * 2000 * s + 3 * u * u * k * control1
             + 3 * u * k * k * control2 + k * k * k * 2000 * e
             + 2 * noise * n * n * n
  IN IntOf(num, 2000 * n * n * n, ExactT(k, n))

\* int(x + jitter) with x on the straight line and jitter a gauss draw
JitterCoord(s, e, k, n, jitter) ==
  IntOf(1000 * Lerp(s, e, k, n) + jitter * n, 1000 * n, ExactT(k, n) \/ s = e)

\* the same with ease = 2*t*t on both sides of t = 0.5
AccelerationEaseInOnly(s, e, k, n) ==
  IntOf(s * n * n + (e - s) * 2 * k * k, n * n, ExactT(k, n) \/ s = e)

\* ease-in-out: 2*t*t below t = 0.5, 1 - (-2*t + 2)^2 / 2 from there on
AccelerationCoord(s, e, k, n) ==
  LET ease == IF 2 * k < n THEN 2 * k * k ELSE n * n - 2 * (n - k) * (n - k)
  IN IntOf(s * n * n + (e - s) * ease, n * n, ExactT(k, n) \/ s = e)

\* int(x) with x on the straight line
HesitationCoord(s, e, k, n) == IntOf(Lerp(s, e, k, n), n, ExactT(k, n) \/ s = e)

\* i % (steps // hesitation_points) == 0
HesitationPause(k, n, hesitation_points) == k % (n \div hesitation_points) = 0

\* int(x + drift) where drift = magnitude * cos-or-sin(angle) * sin(t*pi);
\* c is magnitude * cos-or-sin(angle) in milli.  At t = 1 the float
\* sin(math.pi) is 1.22e-16, not 0: x + drift is then the float next to e on
\* the side of the drift when the drift exceeds half the spacing of the
\* floats below |e|, and int() truncates it to the pixel before e.
DriftCoord(s, e, k, n, c) ==
  IF k = n
    THEN IF e # 0 /\ Sgn(c) = -Sgn(e) /\ 10000 * Abs(c) > 4535 * 1000 * Pow2Ceil(Abs(e))
           THEN {e - Sgn(e)}
           ELSE {e}
    ELSE IntOf(1000 * Lerp(s, e, k, n) + Trunc(c * SinPi(k, n), 1000) * n, 1000 * n,
               k = 0)

DriftComponent(magnitude, trig) == Trunc(magnitude * trig, 1000)

(***************************************************************************)
(* generate_movement_path and the five patterns.  A call picks a pattern,  *)
(* the pattern draws its step count and per-call values, then appends one  *)
(* waypoint per loop iteration and returns the path.                       *)
(***************************************************************************)
NoDraw ==
  [offset_x |-> 0, offset_y |-> 0, hesitation_points |-> 0,
   drift_angle |-> 0, drift_magnitude |-> 0]

\* the values a pattern draws before its loop
PatternDraws(p) ==
  CASE p = "bezier" ->
         {[NoDraw EXCEPT !.offset_x = ox, !.offset_y = oy] :
            ox \in BezierOffsets, oy \in BezierOffsets}
    [] p = "hesitation" ->
         {[NoDraw EXCEPT !.hesitation_points = h] : h \in 1..3}
    [] p = "drift" ->
         {[NoDraw EXCEPT !.drift_angle = a, !.drift_magnitude = m] :
            a \in DriftAngles, m \in DriftMagnitudes}
    [] OTHER -> {NoDraw}

generate_movement_path ==
  /\ gpc = "idle"
  /\ \E p \in Choice(movement_patterns) :
       /\ pattern' = p
       /\ \E n \in StepRange(p) : steps' = n
       /\ \E d \in PatternDraws(p) : draw' = d
  /\ i' = 0
  /\ path_len' = 0
  /\ path_last' = <<0, 0>>
  /\ pauses' = 0
  /\ gpc' = "loop"
  /\ UNCHANGED <<start, end, poolVars, timingVars, workerVars, autoVars, callVars, syncVars, extVars>>

\* path.append(p) at the end of a loop iteration
AppendPoint(p) ==
  /\ path_last' = p
  /\ path_len' = path_len + 1
  /\ i' = i + 1
  /\ UNCHANGED <<gpc, pattern, start, end, steps, draw, poolVars, timingVars, workerVars, autoVars, callVars, syncVars, extVars>>

InLoop(p) == gpc = "loop" /\ pattern = p /\ i < RangeLen(steps)

bezier_movement ==
  /\ InLoop("bezier")
  /\ \E nx \in MicroJitter, ny \in MicroJitter :
       \E x \in BezierCoord(start[1], end[1], i, steps, draw.offset_x, nx),
          y \in BezierCoord(start[2], end[2], i, steps, draw.offset_y, ny) :
         AppendPoint(<<x, y>>)
  /\ UNCHANGED pauses

jitter_movement ==
  /\ InLoop("jitter")
  /\ \E jitter_x \in GaussDraws, jitter_y \in GaussDraws :
       \E x \in JitterCoord(start[1], end[1], i, steps, jitter_x),
          y \in JitterCoord(start[2], end[2], i, steps, jitter_y) :
         AppendPoint(<<x, y>>)
  /\ UNCHANGED pauses

acceleration_movement ==
  /\ InLoop("acceleration")
  /\ \E x \in AccelerationCoord(start[1], end[1], i, steps),
        y \in AccelerationCoord(start[2], end[2], i, steps) :
       AppendPoint(<<x, y>>)
  /\ UNCHANGED pauses

hesitation_movement ==
  /\ InLoop("hesitation")
  /\ pauses' = IF HesitationPause(i, steps, draw.hesitation_points)
                 THEN pauses + 1 ELSE pauses
  /\ \E x \in HesitationCoord(start[1], end[1], i, steps),
        y \in HesitationCoord(start[2], end[2], i, steps) :
       AppendPoint(<<x, y>>)

drift_movement ==
  /\ InLoop("drift")
  /\ \E x \in DriftCoord(start[1], end[1], i, steps,
                          DriftComponent(draw.drift_magnitude, CosDeg(draw.drift_angle))),
        y \in DriftCoord(start[2], end[2], i, steps,
                          DriftComponent(draw.drift_magnitude, SinDeg(draw.drift_angle))) :
       AppendPoint(<<x, y>>)
  /\ UNCHANGED pauses

\* return path
return_path ==
  /\ gpc = "loop"
  /\ ~(i < RangeLen(steps))
  /\ gpc' = "returned"
  /\ UNCHANGED <<pattern, start, end, steps, i, draw, path_len, path_last, pauses,
                 poolVars, timingVars, workerVars, autoVars, callVars, syncVars, extVars>>

(***************************************************************************)
(* The calls checked: the spec's concrete scenario (0,0) -> (100,0), a     *)
(* degenerate call with start = end, end points whose float neighbours the *)
(* drift residue reaches, and the diagonals of the coordinate range.       *)
(***************************************************************************)
PointPairs ==
  { <<<<0, 0>>, <<100, 0>>>>,
    <<<<0, 0>>, <<0, 0>>>>,
    <<<<MaxCoord, -MaxCoord>>, <<8, -8>>>>,
    <<<<MaxCoord, -MaxCoord>>, <<MaxCoord, -MaxCoord>>>>,
    <<<<MaxCoord, -MaxCoord>>, <<-MaxCoord, MaxCoord>>>>,
    <<<<-MaxCoord, -7>>, <<MaxCoord, 32>>>> }

TimingIdle ==
  /\ tpc = "idle"
  /\ base_delay = 0
  /\ now = 0
  /\ timing = "none"
  /\ delay = 0

InitPath ==
  /\ InitPools
  /\ gpc = "idle"
  /\ pattern = "none"
  /\ \E pp \in PointPairs : start = pp[1] /\ end = pp[2]
  /\ steps = 0
  /\ i = 0
  /\ draw = NoDraw
  /\ path_len = 0
  /\ path_last = <<0, 0>>
  /\ pauses = 0
  /\ TimingIdle
  /\ WorkerIdle
  /\ AutoCreated
  /\ CallersIdle
  /\ SyncCreated
  /\ ExtIdle

NextPath ==
  \/ generate_movement_path
  \/ bezier_movement
  \/ jitter_movement
  \/ acceleration_movement
  \/ hesitation_movement
  \/ drift_movement
  \/ return_path

SpecPath == InitPath /\ [][NextPath]_vars

(***************************************************************************)
(* generate_timing_delay and the four timing patterns.  Factors are in     *)
(* 1/10000, so a delay is base_delay * factor in 1/10000 ms.               *)
(***************************************************************************)
\* the GUI's delay spin box: setRange(1, 10000), setValue(100)
BaseDelays == (0..MaxBaseDelay) \cup {DelayDefault, DelayMax}

\* wall-clock times, in 1/100 s, at the zeros and extremes of sin(2t), of
\* sin(0.1t) and of the 300 s fatigue ramp; only the phase matters
NowSamples == {0, 79, 236, 1571, 4712, 29999}

\* degrees of the angle rate * t radians, rate in 1/10: (t/100) * (rate/10) * 180/pi
Degrees(t, rate) == ((t * rate * 573) \div 10000) % 360

\* random.uniform(-0.05, 0.05), (0.9, 1.1), (2, 5), (0.8, 1.2)
RhythmJitter == {-500, 0, 499}
FatigueJitter == {900, 1000, 1099}
DistractedFactorFrom15 == {15000, 35000, 49999}
DistractedFactor == {20000, 35000, 49999}
NormalFactor == {8000, 10000, 11999}

\* base_delay * (1 + sin(time*2) * 0.1 + uniform(-0.05, 0.05))
rhythm_timing(b, t, u) == b * (10000 + SinDeg(Degrees(t, 20)) + u)

\* base_delay * (1 + (time % 300) / 3000) * uniform(0.9, 1.1)
fatigue_timing(b, t, u) == b * (((10000 + (t % 30000) \div 30) * u) \div 1000)

\* base_delay * uniform(2, 5) if random() < 0.05 else base_delay * uniform(0.8, 1.2)
distraction_timing(b, distracted, u) == b * u

\* base_delay * (1 + sin(time*0.1) * 0.2)
FocusTimingNoOne(b, t) == b * (2 * SinDeg(Degrees(t, 1)))
focus_timing(b, t) == b * (10000 + 2 * SinDeg(Degrees(t, 1)))

\* pattern(base_delay, context) over the pattern's draws
TimingDelays(p, b, t) ==
  CASE p = "rhythm" -> {rhythm_timing(b, t, u) : u \in RhythmJitter}
    [] p = "fatigue" -> {fatigue_timing(b, t, u) : u \in FatigueJitter}
    [] p = "distraction" ->
         {distraction_timing(b, TRUE, u) : u \in DistractedFactor}
         \cup {distraction_timing(b, FALSE, u) : u \in NormalFactor}
    [] p = "focus" -> {focus_timing(b, t)}

generate_timing_delay ==
  /\ tpc = "idle"
  /\ \E p \in Choice(timing_variance) :
       /\ timing' = p
       /\ \E d \in TimingDelays(p, base_delay, now) : delay' = d
  /\ tpc' = "returned"
  /\ UNCHANGED <<base_delay, now, poolVars, pathVars, workerVars, autoVars, callVars, syncVars, extVars>>

\* the caller's next call, with another base delay at another time
next_timing_call ==
  /\ tpc = "returned"
  /\ tpc' = "idle"
  /\ \E b \in BaseDelays : base_delay' = b
  /\ \E t \in NowSamples : now' = t
  /\ timing' = "none"
  /\ delay' = 0
  /\ UNCHANGED <<poolVars, pathVars, workerVars, autoVars, callVars, syncVars, extVars>>

PathIdle ==
  /\ gpc = "idle"
  /\ pattern = "none"
  /\ start = <<0, 0>>
  /\ end = <<0, 0>>
  /\ steps = 0
  /\ i = 0
  /\ draw = NoDraw
  /\ path_len = 0
  /\ path_last = <<0, 0>>
  /\ pauses = 0

InitTiming ==
  /\ InitPools
  /\ PathIdle
  /\ tpc = "idle"
  /\ base_delay \in BaseDelays
  /\ now \in NowSamples
  /\ timing = "none"
  /\ delay = 0
  /\ WorkerIdle
  /\ AutoCreated
  /\ CallersIdle
  /\ SyncCreated
  /\ ExtIdle

NextTiming ==
  \/ generate_timing_delay
  \/ next_timing_call

SpecTiming == InitTiming /\ [][NextTiming]_vars

(***************************************************************************)
(* ClickWorker.start_clicking, one action per step of the loop, and        *)
(* stop_clicking, called from the GUI thread at any moment.  The calls of  *)
(* pyautogui end normally, raise FailSafeException (moveTo and click       *)
(* check the cursor against the screen corners) or raise another           *)
(* exception.                                                              *)
(***************************************************************************)
ClickCap == MaxClicks + 1

\* pyautogui.position(): wherever the user has left the cursor
CursorSamples == {<<0, 0>>, <<MaxCoord, -MaxCoord>>}

\* r = random.uniform(0, radius), in milli-pixels
RadiusDraws(radius) == {0, 500 * radius, 1000 * radius}

\* the same with the products rounded away from zero instead of int()
RandomPositionRoundedUp(center, angle, r) ==
  <<center[1] + Trunc(r * CosDeg(angle), 1000000) + Sgn(CosDeg(angle)),
    center[2] + Trunc(r * SinDeg(angle), 1000000) + Sgn(SinDeg(angle))>>

\* center + (int(r * cos(angle)), int(r * sin(angle))): the inline code of
\* raven_autoclicker_complete.py, random_position_around of raven_autoclicker.py
random_position_around(center, angle, r) ==
  <<center[1] + Trunc(r * CosDeg(angle), 1000000),
    center[2] + Trunc(r * SinDeg(angle), 1000000)>>

\* the smallest step count a pattern draws
MinSteps(p) == CHOOSE n \in StepRange(p) : \A m \in StepRange(p) : n <= m

\* path[-1] of pattern p called with (a, b): the waypoint of i = steps
PathLast(p, a, b, n) ==
  CASE p = "bezier" ->
         UNION {{<<x, y>> : x \in BezierCoord(a[1], b[1], n, n, 0, nz),
                            y \in BezierCoord(a[2], b[2], n, n, 0, nz)} :
                nz \in MicroJitter}
    [] p = "jitter" ->
         UNION {{<<x, y>> : x \in JitterCoord(a[1], b[1], n, n, g),
                            y \in JitterCoord(a[2], b[2], n, n, g)} :
                g \in GaussDraws}
    [] p = "acceleration" ->
         {<<x, y>> : x \in AccelerationCoord(a[1], b[1], n, n),
                     y \in AccelerationCoord(a[2], b[2], n, n)}
    [] p = "hesitation" ->
         {<<x, y>> : x \in HesitationCoord(a[1], b[1], n, n),
                     y \in HesitationCoord(a[2], b[2], n, n)}
    [] p = "drift" ->
         UNION {{<<x, y>> :
                   x \in DriftCoord(a[1], b[1], n, n, DriftComponent(m, CosDeg(d))),
                   y \in DriftCoord(a[2], b[2], n, n, DriftComponent(m, SinDeg(d)))} :
                d \in DriftAngles, m \in DriftMagnitudes}

\* generate_movement_path(a, b) as the loop uses it: the length of the
\* returned path and its last waypoint
PathSummaries(a, b) ==
  UNION {{[len |-> RangeLen(MinSteps(p)), last |-> q] : q \in PathLast(p, a, b, MinSteps(p))} :
         p \in Choice(movement_patterns)}

\* if self.profile.human_movement and self.profile.anti_detect
UsesPathGenerator(pr) == pr.human_movement /\ pr.anti_detect

\* for pos in path[:-1]: the number of moveTo calls
ReplayLen(len) == len - 1

\* pyautogui.click(click_pos[0], click_pos[1], ...)
ClickAtPathEnd(it) == it.path_end
ClickPoint(it) == it.click_pos

\* if self.profile.anti_detect: the delay comes from the timing generator
UsesTimingGeneratorAlways(pr) == TRUE
UsesTimingGenerator(pr) == pr.anti_detect

\* delay = self.profile.base_delay, in 1/10000 ms
RawDelay(b) == 10000 * b

workerLocals == <<profile, click_count, total_clicks, start_time, finished, sessions>>

\* start_clicking up to the while loop
start_clicking ==
  /\ wpc = "created"
  /\ is_running' = TRUE
  /\ should_stop' = FALSE
  /\ start_time' = clock
  /\ click_count' = 0
  /\ total_clicks' = 0
  /\ clicks_after_stop' = 0
  /\ wpc' = "while"
  /\ UNCHANGED <<profile, clock, status, finished, exit_reason, sessions, iteration,
                 poolVars, pathVars, timingVars, autoVars, callVars, syncVars, extVars>>

\* a return statement in the place of the break
LeaveLoopByReturn(reason) ==
  /\ exit_reason' = reason
  /\ wpc' = "done"

\* a break statement, or the loop condition found false
LeaveLoop(reason) ==
  /\ exit_reason' = reason
  /\ wpc' = "after_loop"

\* except pyautogui.FailSafeException / except Exception: emit, break
Except(kind) ==
  /\ status' = IF kind = "failsafe" THEN "Emergency stop triggered!" ELSE "Error"
  /\ LeaveLoop(kind)

\* while self.is_running and not self.should_stop
while_check ==
  /\ wpc = "while"
  /\ IF is_running /\ ~should_stop
       THEN wpc' = "limits" /\ UNCHANGED exit_reason
       ELSE LeaveLoop(IF should_stop THEN "stop" ELSE "not_running")
  /\ iteration' = NoIteration
  /\ UNCHANGED <<is_running, should_stop, clock, status, clicks_after_stop, workerLocals,
                 poolVars, pathVars, timingVars, autoVars, callVars, syncVars, extVars>>

\* self.profile.max_clicks > 0 and self.total_clicks >= self.profile.max_clicks
ClickLimitOffByOne(max, total) == max > 0 /\ total > max
ClickLimitUnguarded(max, total) == total >= max
ClickLimitEarly(max, total) == max > 0 /\ total + 1 >= max
ClickLimitReached(max, total) == max > 0 /\ total >= max

\* self.profile.duration_limit > 0 and (time.time() - self.start_time) >= limit
DurationLimitReached(limit, elapsed) == limit > 0 /\ elapsed >= limit

\* the two limit checks at the top of the loop body
check_limits ==
  /\ wpc = "limits"
  /\ IF ClickLimitReached(profile.max_clicks, total_clicks)
       THEN LeaveLoop("click_limit")
       ELSE IF DurationLimitReached(profile.duration_limit, clock - start_time)
              THEN LeaveLoop("duration_limit")
              ELSE wpc' = "position" /\ UNCHANGED exit_reason
  /\ UNCHANGED iteration
  /\ UNCHANGED <<is_running, should_stop, clock, status, clicks_after_stop, workerLocals,
                 poolVars, pathVars, timingVars, autoVars, callVars, syncVars, extVars>>

\* current_pos = pyautogui.position(); click_pos is current_pos, or a
\* random position around it when random_position is set
get_click_position ==
  /\ wpc = "position"
  /\ \/ /\ \E c \in CursorSamples :
             IF profile.random_position
               THEN \E angle \in DriftAngles, r \in RadiusDraws(profile.position_radius) :
                      iteration' = [iteration EXCEPT
                                      !.current_pos = c,
                                      !.click_pos = random_position_around(c, angle, r)]
               ELSE iteration' = [iteration EXCEPT !.current_pos = c, !.click_pos = c]
        /\ wpc' = IF UsesPathGenerator(profile) THEN "move" ELSE "click"
        /\ UNCHANGED <<status, exit_reason>>
     \/ Except("error") /\ UNCHANGED iteration
  /\ UNCHANGED <<is_running, should_stop, clock, clicks_after_stop, workerLocals,
                 poolVars, pathVars, timingVars, autoVars, callVars, syncVars, extVars>>

\* current_pos = pyautogui.position();
\* path = generate_movement_path(current_pos, click_pos), then
\* pyautogui.moveTo for every waypoint of path[:-1]; an exception of
\* moveTo ends the replay
human_move ==
  /\ wpc = "move"
  /\ \/ /\ \E c \in CursorSamples :
             \E ps \in PathSummaries(c, iteration.click_pos) :
               iteration' = [iteration EXCEPT
                               !.path_calls = @ + 1,
                               !.path_len = ps.len,
                               !.path_end = ps.last,
                               !.moves = ReplayLen(ps.len)]
        /\ wpc' = "click"
        /\ UNCHANGED <<status, exit_reason>>
     \/ /\ Except("failsafe")
        /\ iteration' = [iteration EXCEPT !.path_calls = @ + 1]
     \/ /\ Except("error")
        /\ iteration' = [iteration EXCEPT !.path_calls = @ + 1]
  /\ UNCHANGED <<is_running, should_stop, clock, clicks_after_stop, workerLocals,
                 poolVars, pathVars, timingVars, autoVars, callVars, syncVars, extVars>>

\* pyautogui.click(click_pos[0], click_pos[1], ...);
\* self.click_count += 1; self.total_clicks += 1
perform_click ==
  /\ wpc = "click"
  /\ \/ /\ total_clicks < ClickCap
        /\ click_count' = click_count + 1
        /\ total_clicks' = total_clicks + 1
        /\ clicks_after_stop' = IF should_stop THEN clicks_after_stop + 1
                                ELSE clicks_after_stop
        /\ iteration' = [iteration EXCEPT !.clicks = @ + 1,
                                          !.click_at = ClickPoint(iteration)]
        /\ wpc' = "sleep"
        /\ UNCHANGED <<status, exit_reason>>
     \/ /\ Except("failsafe")
        /\ UNCHANGED <<click_count, total_clicks, clicks_after_stop, iteration>>
     \/ /\ Except("error")
        /\ UNCHANGED <<click_count, total_clicks, clicks_after_stop, iteration>>
  /\ UNCHANGED <<is_running, should_stop, clock, profile, start_time, finished, sessions,
                 poolVars, pathVars, timingVars, autoVars, callVars, syncVars, extVars>>

\* delay = generate_timing_delay(base_delay, ...) or base_delay;
\* time.sleep(delay); stats_update.emit(...); back to the loop condition
sleep_delay ==
  /\ wpc = "sleep"
  /\ IF UsesTimingGenerator(profile)
       THEN \E p \in Choice(timing_variance) :
              \E d \in TimingDelays(p, profile.base_delay, 100 * clock) :
                iteration' = [NoIteration EXCEPT !.timing_calls = 1,
                                                  !.delay = d,
                                                  !.sleeps = 1]
       ELSE iteration' = [NoIteration EXCEPT !.delay = RawDelay(profile.base_delay),
                                             !.sleeps = 1]
  /\ wpc' = "while"
  /\ UNCHANGED <<is_running, should_stop, clock, status, exit_reason, clicks_after_stop,
                 workerLocals, poolVars, pathVars, timingVars, autoVars, callVars, syncVars, extVars>>

\* self.is_running = False, after the loop; the loop's locals are dead
after_loop ==
  /\ wpc = "after_loop"
  /\ is_running' = FALSE
  /\ wpc' = "emit"
  /\ iteration' = NoIteration
  /\ UNCHANGED <<should_stop, clock, status, exit_reason, clicks_after_stop, workerLocals,
                 poolVars, pathVars, timingVars, autoVars, callVars, syncVars, extVars>>

\* self.finished.emit()
emit_finished ==
  /\ wpc = "emit"
  /\ finished' = finished + 1
  /\ wpc' = "done"
  /\ UNCHANGED <<is_running, should_stop, clock, status, exit_reason, clicks_after_stop, iteration,
                 profile, click_count, total_clicks, start_time, sessions,
                 poolVars, pathVars, timingVars, autoVars, callVars, syncVars, extVars>>

\* ClickWorker.stop_clicking, from the GUI thread
stop_clicking ==
  /\ should_stop' = TRUE
  /\ UNCHANGED <<wpc, is_running, clock, status, exit_reason, clicks_after_stop, iteration,
                 workerLocals, poolVars, pathVars, timingVars, autoVars, callVars, syncVars, extVars>>

\* a second of wall-clock time passes
tick ==
  /\ clock < MaxClock
  /\ clock' = clock + 1
  /\ UNCHANGED <<wpc, is_running, should_stop, status, exit_reason, clicks_after_stop, iteration,
                 workerLocals, poolVars, pathVars, timingVars, autoVars, callVars, syncVars, extVars>>

\* the GUI's start_clicking after a session has finished: a new ClickWorker
\* with the profile read from the widgets
new_worker ==
  /\ wpc = "done"
  /\ sessions < MaxSessions
  /\ sessions' = sessions + 1
  /\ wpc' = "created"
  /\ \E p \in Profiles : profile' = p
  /\ is_running' = FALSE
  /\ should_stop' = FALSE
  /\ click_count' = 0
  /\ total_clicks' = 0
  /\ start_time' = 0
  /\ status' = ""
  /\ finished' = 0
  /\ exit_reason' = ""
  /\ clicks_after_stop' = 0
  /\ iteration' = NoIteration
  /\ UNCHANGED <<clock, poolVars, pathVars, timingVars, autoVars, callVars, syncVars, extVars>>

InitWorker ==
  /\ InitPools
  /\ PathIdle
  /\ TimingIdle
  /\ \E p \in Profiles : WorkerCreated(p)
  /\ clock = 0
  /\ sessions = 1
  /\ AutoCreated
  /\ CallersIdle
  /\ SyncCreated
  /\ ExtIdle

NextWorker ==
  \/ start_clicking
  \/ while_check
  \/ check_limits
  \/ get_click_position
  \/ human_move
  \/ perform_click
  \/ sleep_delay
  \/ after_loop
  \/ emit_finished
  \/ stop_clicking
  \/ tick
  \/ new_worker

SpecWorker == InitWorker /\ [][NextWorker]_vars

\* The worker thread is scheduled: whenever start_clicking has a next
\* statement it is eventually executed.  The GUI thread (stop_clicking, a
\* new worker) and the clock owe nothing.
WorkerStep ==
  \/ start_clicking
  \/ while_check
  \/ check_limits
  \/ get_click_position
  \/ human_move
  \/ perform_click
  \/ sleep_delay
  \/ after_loop
  \/ emit_finished

\* one session: the worker thread, stop requests and the clock
NextSession ==
  \/ WorkerStep
  \/ stop_clicking
  \/ tick

\* the profiles of a session: every limit, with the anti-detection
\* features all on or all off
SessionProfiles == {p \in Profiles : p.human_movement = p.anti_detect}

InitSession ==
  /\ InitPools
  /\ PathIdle
  /\ TimingIdle
  /\ \E p \in SessionProfiles : WorkerCreated(p)
  /\ clock = 0
  /\ sessions = 1
  /\ AutoCreated
  /\ CallersIdle
  /\ SyncCreated
  /\ ExtIdle

SpecSessionFair == InitSession /\ [][NextSession]_vars /\ WF_vars(WorkerStep)

(***************************************************************************)
(* One session of the same worker, over the profiles that decide what an   *)
(* iteration does; the clock stands still.                                 *)
(***************************************************************************)
InitLoopBody ==
  /\ InitPools
  /\ PathIdle
  /\ TimingIdle
  /\ \E p \in IterationProfiles : WorkerCreated(p)
  /\ clock = 0
  /\ sessions = 1
  /\ AutoCreated
  /\ CallersIdle
  /\ SyncCreated
  /\ ExtIdle

NextLoopBody ==
  \/ start_clicking
  \/ while_check
  \/ check_limits
  \/ get_click_position
  \/ human_move
  \/ perform_click
  \/ sleep_delay
  \/ after_loop
  \/ emit_finished
  \/ stop_clicking

SpecLoopBody == InitLoopBody /\ [][NextLoopBody]_vars

(***************************************************************************)
(* AutoClicker of autoclicker.py: the start hotkey calls                   *)
(* start_clicking_thread, the stop hotkey stop_clicking, on the keyboard   *)
(* listener's thread; every spawned thread runs start_clicking.            *)
(***************************************************************************)
InLoopAuto(t) == apc[t] \in {"while", "click", "sleep"}

\* if not self.clicking: Thread(target=self.start_clicking).start()
start_clicking_thread ==
  /\ ~clicking
  /\ \E t \in Threads :
       /\ apc[t] = "none"
       /\ \A u \in Threads : u < t => apc[u] # "none"
       /\ apc' = [apc EXCEPT ![t] = "entry"]
  /\ UNCHANGED <<clicking, stopped, after_stop, failsafed, after_failsafe,
                 poolVars, pathVars, timingVars, workerVars, callVars, syncVars, extVars>>

\* AutoClicker.start_clicking: self.clicking = True, before the loop
AutoClicker_start_clicking(t) ==
  /\ apc[t] = "entry"
  /\ clicking' = TRUE
  /\ apc' = [apc EXCEPT ![t] = "while"]
  /\ UNCHANGED <<stopped, after_stop, failsafed, after_failsafe,
                 poolVars, pathVars, timingVars, workerVars, callVars, syncVars, extVars>>

\* while self.clicking
AutoClicker_while(t) ==
  /\ apc[t] = "while"
  /\ apc' = [apc EXCEPT ![t] = IF clicking THEN "click" ELSE "done"]
  /\ UNCHANGED <<clicking, stopped, after_stop, failsafed, after_failsafe,
                 poolVars, pathVars, timingVars, workerVars, callVars, syncVars, extVars>>

\* self.clicking = False, seen by every thread in its loop
StopFlag ==
  /\ clicking' = FALSE
  /\ stopped' = [t \in Threads |-> stopped[t] \/ InLoopAuto(t)]

\* pyautogui.click(button=...); FailSafeException calls stop_clicking and
\* breaks; any other exception is not caught and ends the thread
AutoClicker_click(t) ==
  /\ apc[t] = "click"
  /\ \/ /\ stopped[t] => after_stop[t] < MaxAfterStop
        /\ failsafed[t] => after_failsafe[t] < MaxAfterStop
        /\ after_stop' = [after_stop EXCEPT ![t] = IF stopped[t] THEN @ + 1 ELSE @]
        /\ after_failsafe' = [after_failsafe EXCEPT ![t] = IF failsafed[t] THEN @ + 1 ELSE @]
        /\ apc' = [apc EXCEPT ![t] = "sleep"]
        /\ UNCHANGED <<clicking, stopped, failsafed>>
     \/ /\ StopFlag
        /\ failsafed' = [u \in Threads |-> failsafed[u] \/ (u # t /\ InLoopAuto(u))]
        /\ apc' = [apc EXCEPT ![t] = "done"]
        /\ UNCHANGED <<after_stop, after_failsafe>>
     \/ /\ apc' = [apc EXCEPT ![t] = "done"]
        /\ UNCHANGED <<clicking, stopped, after_stop, failsafed, after_failsafe>>
  /\ UNCHANGED <<poolVars, pathVars, timingVars, workerVars, callVars, syncVars, extVars>>

\* time.sleep(self.click_delay)
AutoClicker_sleep(t) ==
  /\ apc[t] = "sleep"
  /\ apc' = [apc EXCEPT ![t] = "while"]
  /\ UNCHANGED <<clicking, stopped, after_stop, failsafed, after_failsafe,
                 poolVars, pathVars, timingVars, workerVars, callVars, syncVars, extVars>>

\* AutoClicker.stop_clicking
AutoClicker_stop_clicking ==
  /\ StopFlag
  /\ UNCHANGED <<apc, after_stop, failsafed, after_failsafe,
                 poolVars, pathVars, timingVars, workerVars, callVars, syncVars, extVars>>

InitAuto ==
  /\ InitPools
  /\ PathIdle
  /\ TimingIdle
  /\ WorkerIdle
  /\ AutoCreated
  /\ CallersIdle
  /\ SyncCreated
  /\ ExtIdle

NextAuto ==
  \/ start_clicking_thread
  \/ AutoClicker_stop_clicking
  \/ \E t \in Threads :
       \/ AutoClicker_start_clicking(t)
       \/ AutoClicker_while(t)
       \/ AutoClicker_click(t)
       \/ AutoClicker_sleep(t)

SpecAuto == InitAuto /\ [][NextAuto]_vars

(***************************************************************************)
(* Several threads calling generate_movement_path and                      *)
(* generate_timing_delay of one AdvancedAntiDetection object.  A call      *)
(* reads the pool in random.choice, then runs the chosen pattern, which    *)
(* works on its arguments and its own locals, then returns.                *)
(***************************************************************************)
\* the list random.choice(seq) leaves behind, and the one seq.pop() would
PoolAfterPop(seq) == Tail(seq)
PoolAfterChoice(seq) == seq

\* pattern = random.choice(self.movement_patterns)
call_generate_movement_path(t) ==
  /\ calls[t].pc = "idle"
  /\ \E p \in Choice(movement_patterns) :
       calls' = [calls EXCEPT ![t] = [pc |-> "pattern", method |-> "generate_movement_path",
                                       pattern |-> p, value |-> <<>>]]
  /\ movement_patterns' = PoolAfterChoice(movement_patterns)
  /\ UNCHANGED <<timing_variance, pathVars, timingVars, workerVars, autoVars, syncVars, extVars>>

\* pattern = random.choice(self.timing_variance)
call_generate_timing_delay(t) ==
  /\ calls[t].pc = "idle"
  /\ \E p \in Choice(timing_variance) :
       calls' = [calls EXCEPT ![t] = [pc |-> "pattern", method |-> "generate_timing_delay",
                                       pattern |-> p, value |-> <<>>]]
  /\ timing_variance' = PoolAfterChoice(timing_variance)
  /\ UNCHANGED <<movement_patterns, pathVars, timingVars, workerVars, autoVars, syncVars, extVars>>

\* pattern(start, end) for (0, 0) -> (100, 0): the value is the path, kept
\* as its length and last waypoint
run_movement_pattern(t) ==
  /\ calls[t].pc = "pattern"
  /\ calls[t].method = "generate_movement_path"
  /\ \E n \in {MinSteps(calls[t].pattern)} :
       \E q \in PathLast(calls[t].pattern, <<0, 0>>, <<100, 0>>, n) :
         calls' = [calls EXCEPT ![t].pc = "returned", ![t].value = <<RangeLen(n), q>>]
  /\ UNCHANGED <<poolVars, pathVars, timingVars, workerVars, autoVars, syncVars, extVars>>

\* pattern(base_delay, context) for the default delay
run_timing_pattern(t) ==
  /\ calls[t].pc = "pattern"
  /\ calls[t].method = "generate_timing_delay"
  /\ \E d \in TimingDelays(calls[t].pattern, DelayDefault, 0) :
       calls' = [calls EXCEPT ![t].pc = "returned", ![t].value = <<d>>]
  /\ UNCHANGED <<poolVars, pathVars, timingVars, workerVars, autoVars, syncVars, extVars>>

\* the caller takes the value; its next call may follow
return_call(t) ==
  /\ calls[t].pc = "returned"
  /\ calls' = [calls EXCEPT ![t] = NoCall]
  /\ UNCHANGED <<poolVars, pathVars, timingVars, workerVars, autoVars, syncVars, extVars>>

InitCallers ==
  /\ InitPools
  /\ PathIdle
  /\ TimingIdle
  /\ WorkerIdle
  /\ AutoCreated
  /\ CallersIdle
  /\ SyncCreated
  /\ ExtIdle

NextCallers ==
  \E t \in Callers :
    \/ call_generate_movement_path(t)
    \/ call_generate_timing_delay(t)
    \/ run_movement_pattern(t)
    \/ run_timing_pattern(t)
    \/ return_call(t)

SpecCallers == InitCallers /\ [][NextCallers]_vars

(***************************************************************************)
(* CloudSyncManager of cloud_sync.py.  connect_to_cloud builds the         *)
(* configuration from the text fields (which may be empty) and calls       *)
(* set_config; the Sync button calls start_sync, the QTimer auto_sync;     *)
(* every start spawns a thread that runs _perform_sync.                    *)
(***************************************************************************)
Configs == [is_set : {TRUE}, api_key : {"", "key"}, auto_sync : BOOLEAN]

\* dictionaries json.load can return: empty, or one entry
LocalDataSamples == {EmptyDict, [k \in {"profiles"} |-> 1]}

\* _authenticate: builds the headers, "For demo, always succeed"
AuthenticateWithKey(cfg) == cfg.api_key # ""
authenticate(cfg) == TRUE

\* _download_data: "For demo, return empty data"; None only after an exception
download_data(cfg) == [is_none |-> FALSE, data |-> EmptyDict]

\* _compare_data: the keys present on both sides with different values
compare_data(local, cloud) ==
  {k \in DOMAIN local : k \in DOMAIN cloud /\ local[k] # cloud[k]}

\* _upload_data: _encrypt_data (json.dumps, sha256), "For demo, always succeed"
upload_data(cfg, data) == TRUE

set_config ==
  /\ \E c \in Configs : config' = c
  /\ UNCHANGED <<is_syncing, local_data, spc, emitted,
                 poolVars, pathVars, timingVars, workerVars, autoVars, callVars, extVars>>

load_local_data ==
  /\ \E data \in LocalDataSamples : local_data' = data
  /\ UNCHANGED <<config, is_syncing, spc, emitted,
                 poolVars, pathVars, timingVars, workerVars, autoVars, callVars, extVars>>

\* threading.Thread(target=self._perform_sync).start()
SpawnSync ==
  /\ \E t \in SyncThreads :
       /\ spc[t] = "none"
       /\ \A u \in SyncThreads : u < t => spc[u] # "none"
       /\ spc' = [spc EXCEPT ![t] = "spawned"]
  /\ UNCHANGED <<config, is_syncing, local_data, emitted,
                 poolVars, pathVars, timingVars, workerVars, autoVars, callVars, extVars>>

\* if not self.config or self.is_syncing: return
start_sync ==
  /\ config.is_set
  /\ ~is_syncing
  /\ SpawnSync

\* if self.config and self.config.auto_sync and not self.is_syncing
auto_sync ==
  /\ config.is_set
  /\ config.auto_sync
  /\ ~is_syncing
  /\ SpawnSync

\* self.sync_completed.emit(success, ...) by run t, then the finally clause
Completed(t, success) ==
  /\ emitted' = [emitted EXCEPT ![t] = Append(@, success)]
  /\ spc' = [spc EXCEPT ![t] = "finally"]

\* self.is_syncing = True; self.sync_started.emit()
perform_sync_begin(t) ==
  /\ spc[t] = "spawned"
  /\ is_syncing' = TRUE
  /\ spc' = [spc EXCEPT ![t] = "authenticate"]
  /\ UNCHANGED <<config, local_data, emitted,
                 poolVars, pathVars, timingVars, workerVars, autoVars, callVars, extVars>>

\* Step 1: if not self._authenticate(): emit(False, ...); return
perform_sync_authenticate(t) ==
  /\ spc[t] = "authenticate"
  /\ IF authenticate(config)
       THEN spc' = [spc EXCEPT ![t] = "download"] /\ UNCHANGED emitted
       ELSE Completed(t, FALSE)
  /\ UNCHANGED <<config, is_syncing, local_data,
                 poolVars, pathVars, timingVars, workerVars, autoVars, callVars, extVars>>

\* Step 2: cloud_data = self._download_data(); None ends the run
perform_sync_download(t) ==
  /\ spc[t] = "download"
  /\ IF download_data(config).is_none
       THEN Completed(t, FALSE)
       ELSE spc' = [spc EXCEPT ![t] = "compare"] /\ UNCHANGED emitted
  /\ UNCHANGED <<config, is_syncing, local_data,
                 poolVars, pathVars, timingVars, workerVars, autoVars, callVars, extVars>>

\* Step 3: conflicts = self._compare_data(cloud_data); conflict_detected is
\* emitted for each and the local value is kept ("prefer local data")
perform_sync_compare(t) ==
  /\ spc[t] = "compare"
  /\ LET conflicts == compare_data(local_data, download_data(config).data)
     IN spc' = [spc EXCEPT ![t] = IF conflicts = {} THEN "upload" ELSE "conflicts"]
  /\ UNCHANGED <<config, is_syncing, local_data, emitted,
                 poolVars, pathVars, timingVars, workerVars, autoVars, callVars, extVars>>

\* Step 4: if self._upload_data(self.local_data): last_sync, emit(True, ...)
\* else emit(False, ...)
perform_sync_upload(t) ==
  /\ spc[t] \in {"upload", "conflicts"}
  /\ Completed(t, upload_data(config, local_data))
  /\ UNCHANGED <<config, is_syncing, local_data,
                 poolVars, pathVars, timingVars, workerVars, autoVars, callVars, extVars>>

\* finally: self.is_syncing = False
perform_sync_finally(t) ==
  /\ spc[t] = "finally"
  /\ is_syncing' = FALSE
  /\ spc' = [spc EXCEPT ![t] = "done"]
  /\ UNCHANGED <<config, local_data, emitted,
                 poolVars, pathVars, timingVars, workerVars, autoVars, callVars, extVars>>

InitSync ==
  /\ InitPools
  /\ PathIdle
  /\ TimingIdle
  /\ WorkerIdle
  /\ AutoCreated
  /\ CallersIdle
  /\ SyncCreated
  /\ ExtIdle

NextSync ==
  \/ set_config
  \/ load_local_data
  \/ start_sync
  \/ auto_sync
  \/ \E t \in SyncThreads :
       \/ perform_sync_begin(t)
       \/ perform_sync_authenticate(t)
       \/ perform_sync_download(t)
       \/ perform_sync_compare(t)
       \/ perform_sync_upload(t)
       \/ perform_sync_finally(t)

SpecSync == InitSync /\ [][NextSync]_vars

(***************************************************************************)
(* MacroPlayer of advanced_features.py: set_loop_count, start_playback and *)
(* stop_playback are called by the thread that owns the player, each       *)
(* start_playback starts a thread running _play_actions.  Nothing in       *)
(* _play_actions catches an exception: an action whose execution raises    *)
(* (pyautogui's FailSafeException) ends the thread where it stands.        *)
(***************************************************************************)
CoreIdle ==
  /\ InitPools
  /\ PathIdle
  /\ TimingIdle
  /\ WorkerIdle
  /\ AutoCreated
  /\ CallersIdle
  /\ SyncCreated

LoopCounts == -1..MaxLoops

\* self.loop_count = count, called before the player is started
set_loop_count ==
  /\ playback_thread = 0
  /\ ~stopping
  /\ \E count \in LoopCounts : loop_count' = count
  /\ UNCHANGED <<actions, is_playing, current_action_index, current_loop, playback_thread,
                 ppc, loop_i, loop_read, executed, in_order, stops_emitted,
                 stop_called, stopping, exceptMacro>>

\* if not self.actions: return; is_playing = True; the indexes reset;
\* threading.Thread(target=self._play_actions).start()
start_playback ==
  /\ ~stopping
  /\ actions # <<>>
  /\ \E t \in Players :
       /\ ppc[t] = "none"
       /\ \A u \in Players : u < t => ppc[u] # "none"
       /\ ppc' = [ppc EXCEPT ![t] = "while"]
       /\ playback_thread' = t
  /\ is_playing' = TRUE
  /\ current_action_index' = 0
  /\ current_loop' = 0
  /\ UNCHANGED <<actions, loop_count, loop_i, loop_read, executed, in_order,
                 stops_emitted, stop_called, stopping, exceptMacro>>

\* stop_playback up to the join: self.is_playing = False
stop_playback ==
  /\ ~stopping
  /\ playback_thread # 0 => stops_emitted[playback_thread] < MaxEmits
  /\ is_playing' = FALSE
  /\ stop_called' = TRUE
  /\ stopping' = TRUE
  /\ UNCHANGED <<actions, current_action_index, loop_count, current_loop, playback_thread,
                 ppc, loop_i, loop_read, executed, in_order, stops_emitted, exceptMacro>>

\* the join has returned, the thread ended or the second elapsed:
\* self.playback_stopped.emit()
stop_playback_emit ==
  /\ stopping
  /\ stopping' = FALSE
  /\ stops_emitted' = IF playback_thread = 0 THEN stops_emitted
                      ELSE [stops_emitted EXCEPT ![playback_thread] = @ + 1]
  /\ UNCHANGED <<actions, is_playing, current_action_index, loop_count, current_loop,
                 playback_thread, ppc, loop_i, loop_read, executed, in_order,
                 stop_called, exceptMacro>>

playerLocals == <<actions, loop_count, playback_thread, stop_called, stopping, in_order>>

\* while self.is_playing and self.current_loop < self.loop_count
play_while(t) ==
  /\ ppc[t] = "while"
  /\ IF is_playing /\ current_loop < loop_count
       THEN ppc' = [ppc EXCEPT ![t] = "for"] /\ loop_i' = [loop_i EXCEPT ![t] = 0]
       ELSE ppc' = [ppc EXCEPT ![t] = "end"] /\ UNCHANGED loop_i
  /\ UNCHANGED <<is_playing, current_action_index, current_loop, loop_read, executed,
                 stops_emitted, playerLocals, exceptMacro>>

\* for i, action in enumerate(self.actions): if not self.is_playing: break
play_for(t) ==
  /\ ppc[t] = "for"
  /\ IF loop_i[t] < Len(actions) /\ is_playing
       THEN ppc' = [ppc EXCEPT ![t] = "execute"]
       ELSE ppc' = [ppc EXCEPT ![t] = "read"]
  /\ UNCHANGED <<is_playing, current_action_index, current_loop, loop_i, loop_read,
                 executed, stops_emitted, playerLocals, exceptMacro>>

\* the execution of a click raises
MayRaise(type) == type = "click"

\* self.current_action_index = i; action_executed.emit(action); the
\* action's _execute_ method; the wait for the next action's time
play_execute(t) ==
  /\ ppc[t] = "execute"
  /\ current_action_index' = loop_i[t]
  /\ executed' = [executed EXCEPT ![t] = @ + 1]
  /\ in_order' = [in_order EXCEPT ![t] = @ /\ loop_i[t] = executed[t] % Len(actions)]
  /\ \/ /\ ppc' = [ppc EXCEPT ![t] = "for"]
        /\ loop_i' = [loop_i EXCEPT ![t] = @ + 1]
     \/ /\ MayRaise(actions[loop_i[t] + 1])
        /\ ppc' = [ppc EXCEPT ![t] = "dead"]
        /\ UNCHANGED loop_i
  /\ UNCHANGED <<is_playing, current_loop, loop_read, stops_emitted, actions, loop_count,
                 playback_thread, stop_called, stopping, exceptMacro>>

\* self.current_loop += 1, the read
play_read(t) ==
  /\ ppc[t] = "read"
  /\ loop_read' = [loop_read EXCEPT ![t] = current_loop]
  /\ ppc' = [ppc EXCEPT ![t] = "incr"]
  /\ UNCHANGED <<is_playing, current_action_index, current_loop, loop_i, executed,
                 stops_emitted, playerLocals, exceptMacro>>

\* self.current_loop += 1, the write
play_incr(t) ==
  /\ ppc[t] = "incr"
  /\ current_loop' = loop_read[t] + 1
  /\ ppc' = [ppc EXCEPT ![t] = "while"]
  /\ UNCHANGED <<is_playing, current_action_index, loop_i, loop_read, executed,
                 stops_emitted, playerLocals, exceptMacro>>

\* self.is_playing = False, after the while loop
play_end(t) ==
  /\ ppc[t] = "end"
  /\ is_playing' = FALSE
  /\ ppc' = [ppc EXCEPT ![t] = "emit"]
  /\ UNCHANGED <<current_action_index, current_loop, loop_i, loop_read, executed,
                 stops_emitted, playerLocals, exceptMacro>>

\* self.playback_stopped.emit(), by the playback thread
play_emit(t) ==
  /\ ppc[t] = "emit"
  /\ stops_emitted' = [stops_emitted EXCEPT ![t] = @ + 1]
  /\ ppc' = [ppc EXCEPT ![t] = "done"]
  /\ UNCHANGED <<is_playing, current_action_index, current_loop, loop_i, loop_read,
                 executed, playerLocals, exceptMacro>>

InitMacro ==
  /\ CoreIdle
  /\ \E list \in ActionLists : MacroCreated(list)
  /\ PluginsCreated
  /\ SchedulerIdle
  /\ SettingsCreated

NextMacro ==
  \/ set_loop_count
  \/ start_playback
  \/ stop_playback
  \/ stop_playback_emit
  \/ \E t \in Players :
       \/ play_while(t)
       \/ play_for(t)
       \/ play_execute(t)
       \/ play_read(t)
       \/ play_incr(t)
       \/ play_end(t)
       \/ play_emit(t)

SpecMacro == InitMacro /\ [][NextMacro]_vars

(***************************************************************************)
(* PluginManager of plugin_system.py.  A plugin file defines the plugin of *)
(* one name; a registry is kept by the names it holds, plugin_configs and  *)
(* the config files also by the configuration stored under each name.      *)
(***************************************************************************)
ConfigSamples == {"a", "b"}

Registries ==
  [plugins |-> plugins, plugin_info |-> plugin_info, plugin_configs |-> plugin_configs]

SetRegistries(reg) ==
  /\ plugins' = reg.plugins
  /\ plugin_info' = reg.plugin_info
  /\ plugin_configs' = reg.plugin_configs

\* _load_plugin_config: the content of the file, {} when there is no file
\* or json.load fails on it
load_plugin_config(n, readable) ==
  IF config_files[n] # "absent" /\ readable THEN config_files[n] ELSE "{}"

\* load_plugin: every failure before the three assignments raises and is
\* caught; initialized, the plugin is entered in the three registries
Loaded(reg, n, initialized, cfg) ==
  IF initialized
    THEN [plugins |-> reg.plugins \cup {n},
          plugin_info |-> reg.plugin_info \cup {n},
          plugin_configs |-> [reg.plugin_configs EXCEPT ![n] = cfg]]
    ELSE reg

\* unload_plugin: cleanup(), then the three del statements; a del of a
\* missing key raises KeyError, which the handler catches
Unloaded(reg, n, cleaned) ==
  IF n \notin reg.plugins \/ ~cleaned
    THEN reg
    ELSE IF n \notin reg.plugin_info
           THEN [reg EXCEPT !.plugins = @ \ {n}]
           ELSE [plugins |-> reg.plugins \ {n},
                 plugin_info |-> reg.plugin_info \ {n},
                 plugin_configs |-> [reg.plugin_configs EXCEPT ![n] = "absent"]]

load_plugin ==
  /\ \E n \in PluginNames, initialized \in BOOLEAN, readable \in BOOLEAN :
       /\ SetRegistries(Loaded(Registries, n, initialized, load_plugin_config(n, readable)))
       /\ plugin_result' = IF initialized THEN "loaded" ELSE "load_failed"
  /\ UNCHANGED <<config_files, exceptPlugins>>

unload_plugin ==
  /\ \E n \in PluginNames, cleaned \in BOOLEAN :
       /\ SetRegistries(Unloaded(Registries, n, cleaned))
       /\ plugin_result' = IF n \in plugins /\ cleaned THEN "unloaded" ELSE "not_unloaded"
  /\ UNCHANGED <<config_files, exceptPlugins>>

\* if plugin_name in self.plugin_info: unload_plugin; return load_plugin
reload_plugin ==
  /\ \E n \in PluginNames :
       IF n \in plugin_info
         THEN \E cleaned \in BOOLEAN, initialized \in BOOLEAN, readable \in BOOLEAN :
                /\ SetRegistries(Loaded(Unloaded(Registries, n, cleaned), n, initialized,
                                        load_plugin_config(n, readable)))
                /\ plugin_result' = IF initialized THEN "reloaded" ELSE "reload_failed"
         ELSE /\ UNCHANGED <<plugins, plugin_info, plugin_configs>>
              /\ plugin_result' = "not_reloaded"
  /\ UNCHANGED <<config_files, exceptPlugins>>

\* self.plugin_configs[plugin_name] = config; json.dump to the config
\* file, whose failure is caught
save_plugin_config ==
  /\ \E n \in PluginNames, cfg \in ConfigSamples, written \in BOOLEAN :
       /\ plugin_configs' = [plugin_configs EXCEPT ![n] = cfg]
       /\ config_files' = IF written THEN [config_files EXCEPT ![n] = cfg]
                          ELSE config_files
       /\ plugin_result' = IF written THEN "saved" ELSE "save_failed"
  /\ UNCHANGED <<plugins, plugin_info, exceptPlugins>>

InitPlugins ==
  /\ CoreIdle
  /\ MacroIdle
  /\ PluginsCreated
  /\ SchedulerIdle
  /\ SettingsCreated

NextPlugins ==
  \/ load_plugin
  \/ unload_plugin
  \/ reload_plugin
  \/ save_plugin_config

SpecPlugins == InitPlugins /\ [][NextPlugins]_vars

(***************************************************************************)
(* TaskScheduler of advanced_features.py.  The timer calls _check_tasks    *)
(* every second, in the thread of the event loop; time is kept in days.    *)
(* A task also carries the number of times it was triggered and the days   *)
(* between its last two triggers (-1 before the second).                   *)
(***************************************************************************)
Intervals == {"daily", "weekly", "monthly", "custom", "once"}

\* current.addDays(1), current.addDays(7), current.addMonths(1) from
\* the first day of February
IntervalDays(repeat_interval) ==
  CASE repeat_interval = "daily" -> 1
    [] repeat_interval = "weekly" -> 7
    [] repeat_interval = "monthly" -> 28

NewTasks ==
  [repeat_interval : Intervals, enabled : BOOLEAN, next_run : 0..1, last_run : {-1},
   triggers : {0}, gap : {-1}]

\* add_task keeps the list sorted by next_run
TaskLists ==
  {list \in UNION {[1..n -> NewTasks] : n \in 1..MaxTasks} :
     \A k \in 1..(Len(list) - 1) : list[k].next_run <= list[k + 1].next_run}

\* _update_next_run
update_next_run(task, current) ==
  IF task.repeat_interval \in {"daily", "weekly", "monthly"}
    THEN [task EXCEPT !.next_run = current + IntervalDays(task.repeat_interval)]
    ELSE IF task.repeat_interval = "custom"
           THEN task
           ELSE [task EXCEPT !.enabled = FALSE]

\* if task.enabled and current_time >= task.next_run:
\* task_triggered.emit(task); task.last_run = current_time; _update_next_run
Checked(task, current_time) ==
  IF task.enabled /\ current_time >= task.next_run
    THEN update_next_run([task EXCEPT
                            !.last_run = current_time,
                            !.triggers = @ + 1,
                            !.gap = IF task.last_run = -1 THEN -1
                                    ELSE current_time - task.last_run],
                         current_time)
    ELSE task

\* _check_tasks: for task in self.tasks[:]
check_tasks ==
  /\ \A k \in 1..Len(tasks) : tasks[k].triggers < MaxTriggers
  /\ tasks' = [k \in 1..Len(tasks) |-> Checked(tasks[k], sched_now)]
  /\ UNCHANGED <<sched_now, exceptScheduler>>

\* a day passes
tick_day ==
  /\ sched_now < MaxDay
  /\ sched_now' = sched_now + 1
  /\ UNCHANGED <<tasks, exceptScheduler>>

InitScheduler ==
  /\ CoreIdle
  /\ MacroIdle
  /\ PluginsCreated
  /\ \E list \in TaskLists : tasks = list
  /\ sched_now = 0
  /\ SettingsCreated

NextScheduler ==
  \/ check_tasks
  \/ tick_day

SpecScheduler == InitScheduler /\ [][NextScheduler]_vars

(***************************************************************************)
(* The settings of AutoClicker (autoclicker.py).  A delay is a float of    *)
(* seconds, kept in milliseconds, or nan.                                  *)
(***************************************************************************)
ValidButtons == {"left", "right", "middle"}

ButtonInputs == ValidButtons \cup {"", "LEFT", "x1"}

DelayInputs == {Millis(m) : m \in -1..MaxDelayMs} \cup {NotANumber}

\* 0.01
MinDelay == Millis(10)

\* b > a on floats: False when either is nan
Greater(b, a) == ~a.nan /\ ~b.nan /\ b.ms > a.ms

\* max(a, b): b when b > a, a otherwise
PyMaxOfSecond(a, b) == b
PyMax(a, b) == IF Greater(b, a) THEN b ELSE a

\* self.click_delay = max(0.01, delay)
set_click_delay ==
  /\ \E seconds \in DelayInputs : click_delay' = PyMax(MinDelay, seconds)
  /\ UNCHANGED <<click_button, button_call, exceptSettings>>

\* if button in ['left', 'right', 'middle']: self.click_button = button
set_click_button ==
  /\ \E button \in ButtonInputs :
       /\ button_call' = [arg |-> button, before |-> click_button]
       /\ click_button' = IF button \in ValidButtons THEN button ELSE click_button
  /\ UNCHANGED <<click_delay, exceptSettings>>

InitSettings ==
  /\ CoreIdle
  /\ MacroIdle
  /\ PluginsCreated
  /\ SchedulerIdle
  /\ SettingsCreated

NextSettings ==
  \/ set_click_delay
  \/ set_click_button

SpecSettings == InitSettings /\ [][NextSettings]_vars

(***************************************************************************)
(* Claims about the generators.                                            *)
(***************************************************************************)

\* C1: for every base_delay >= 0, at every wall-clock time and for every
\* draw, generate_timing_delay returns a value >= 0, whichever of the four
\* timing patterns is selected.
C1_DelayNonNegative == tpc = "returned" => delay >= 0

\* C1 witness: the focus pattern has returned a delay shortened below a
\* positive base delay (the negative half of its sine cycle).
C1_Witness ==
  /\ tpc = "returned"
  /\ timing = "focus"
  /\ base_delay > 0
  /\ delay < 10000 * base_delay

\* C2: for all integer start and end points (start = end included) and
\* whichever movement pattern is selected, the path returned has at least 2
\* waypoints (and no more than its loop bound: it is finite).
C2_AtLeastTwoWaypoints ==
  /\ path_len <= 26
  /\ gpc = "returned" => path_len >= 2

\* C2 witness: a call with start = end has returned.
C2_Witness == gpc = "returned" /\ start = end /\ path_len >= 2

\* C3 as claimed: every path returned has at least 8 and at most 25
\* waypoints.
C3_Original == gpc = "returned" => (path_len >= 8 /\ path_len <= 25)

\* C3 amended: every path returned has steps + 1 waypoints, which is at least
\* 9 and at most 26 over the patterns' step ranges.
C3_WaypointCount ==
  gpc = "returned" => (path_len = steps + 1 /\ path_len >= 9 /\ path_len <= 26)

\* C3 witness: the shortest and the longest path are returned.
C3_Witness == gpc = "returned" /\ path_len = 26

\* per-coordinate distance of two points
CoordDist(p, q) ==
  IF Abs(p[1] - q[1]) >= Abs(p[2] - q[2]) THEN Abs(p[1] - q[1]) ELSE Abs(p[2] - q[2])

\* the tolerance of a pattern: the truncated largest gauss draw plus one for
\* jitter, one pixel for the other patterns
EndpointTolerance(p) == IF p = "jitter" THEN GaussMax \div 1000 + 1 ELSE 1

\* C4: there is a fixed tolerance, independent of start and end (18 pixels:
\* 18 for jitter, 1 for the other patterns), such that the first waypoint
\* is within it of start and the last waypoint within it of end, in both
\* coordinates.
C4_EndpointsWithinTolerance ==
  /\ path_len = 1 => CoordDist(path_last, start) <= EndpointTolerance(pattern)
  /\ gpc = "returned" => CoordDist(path_last, end) <= EndpointTolerance(pattern)

\* C4 witness: a jitter path has returned whose last waypoint is the full
\* tolerance away from end.
C4_Witness ==
  /\ gpc = "returned"
  /\ pattern = "jitter"
  /\ start # end
  /\ CoordDist(path_last, end) = EndpointTolerance("jitter")

\* C5 as claimed: for generate_movement_path((0,0), (100,0)) the x-coordinate
\* of the final waypoint is within 5 pixels of 100.
C5_FinalXWithin5 ==
  (gpc = "returned" /\ start = <<0, 0>> /\ end = <<100, 0>>)
    => Abs(path_last[1] - 100) <= 5

\* twice the area of the triangle start, end, p
Cross(p) ==
  (end[1] - start[1]) * (p[2] - start[2]) - (end[2] - start[2]) * (p[1] - start[1])

\* the squared length of the segment start, end
SegLen2 ==
  (end[1] - start[1]) * (end[1] - start[1]) + (end[2] - start[2]) * (end[2] - start[2])

\* p is within r pixels, perpendicular distance, of the line through start
\* and end (of the point start when start = end)
WithinEnvelope(p, r) ==
  IF start = end
    THEN (p[1] - start[1]) * (p[1] - start[1]) + (p[2] - start[2]) * (p[2] - start[2])
           <= r * r
    ELSE Cross(p) * Cross(p) <= r * r * SegLen2

\* C6: every waypoint of every path lies within 60 pixels, perpendicular
\* distance, of the straight segment from start to end.
C6_Within60Pixels == path_len >= 1 => WithinEnvelope(path_last, 60)

\* C6 witness: a Bezier waypoint more than 20 pixels off the segment.
C6_Witness ==
  /\ path_len >= 1
  /\ pattern = "bezier"
  /\ start # end
  /\ ~WithinEnvelope(path_last, 20)

\* C7 as claimed: in one call of the hesitation pattern the number of
\* waypoints at which the generator sleeps is at least 1 and at most 3.
C7_PausesBetween1And3 ==
  (gpc = "returned" /\ pattern = "hesitation") => (pauses >= 1 /\ pauses <= 3)


(***************************************************************************)
(* Claims about the click loops.                                           *)
(***************************************************************************)
LoopLeft == wpc \in {"after_loop", "emit", "done"}

\* C8: when the profile's max_clicks is greater than 0, total_clicks never
\* exceeds max_clicks, whatever the interleaving with stop requests.
C8_ClicksWithinLimit ==
  profile.max_clicks > 0 => total_clicks <= profile.max_clicks

\* a session that clicked max_clicks times and ended on the limit although a
\* stop request arrived on the way
C8_Witness ==
  /\ profile.max_clicks = MaxClicks
  /\ total_clicks = MaxClicks
  /\ exit_reason = "click_limit"
  /\ should_stop
  /\ wpc = "done"

\* C9 as stated: the loop is left only on the click-count limit, the
\* duration limit, a stop request or the failsafe.
C9_Original ==
  LoopLeft => exit_reason \in {"click_limit", "duration_limit", "stop", "failsafe"}

\* C9: the loop is left only when one of five conditions is reached: the
\* click-count limit (max_clicks > 0 and total_clicks >= max_clicks), the
\* duration limit (duration_limit > 0 and the elapsed time >= it), a stop
\* request, the failsafe ("Emergency stop triggered!"), or any other
\* exception raised inside the iteration ("Error: ...").
C9_FiveExits ==
  /\ LoopLeft <=> exit_reason # ""
  /\ LoopLeft =>
       \/ /\ exit_reason = "click_limit"
          /\ profile.max_clicks > 0
          /\ total_clicks >= profile.max_clicks
       \/ /\ exit_reason = "duration_limit"
          /\ profile.duration_limit > 0
          /\ clock - start_time >= profile.duration_limit
       \/ exit_reason = "stop" /\ should_stop
       \/ exit_reason = "failsafe" /\ status = "Emergency stop triggered!"
       \/ exit_reason = "error" /\ status = "Error"

\* a session ended by an exception other than the failsafe, finished emitted
C9_Witness ==
  /\ wpc = "done"
  /\ exit_reason = "error"
  /\ finished = 1
  /\ ~is_running

\* ClickWorker alone: at most one click is performed with should_stop set.
WorkerOneClickAfterStop == clicks_after_stop <= 1

\* C10: once stop_clicking has set the stop flag while a click loop is
\* running, that loop performs at most one further click.  For AutoClicker
\* the flag is clicking = False, and a thread in its loop when stop_clicking
\* ran must not click more than once afterwards.
C10_AtMostOneClickAfterStop ==
  \A t \in Threads : stopped[t] => after_stop[t] <= 1

\* C11: at most one background click loop is active at any time; a second
\* start request while a session is active or starting creates no second
\* clicking thread.  For AutoClicker: at most one thread is inside the
\* while loop of start_clicking.
C11_AtMostOneLoop ==
  Cardinality({t \in Threads : InLoopAuto(t)}) <= 1

\* ClickWorker alone: once a FailSafeException has ended the loop, the
\* status is "Emergency stop triggered!", the worker performs no further
\* click and goes on to is_running = False and finished.emit().
WorkerFailsafeEndsSession ==
  /\ [](exit_reason = "failsafe" =>
          /\ status = "Emergency stop triggered!"
          /\ LoopLeft
          /\ wpc \in {"emit", "done"} => ~is_running)
  /\ [][exit_reason = "failsafe" /\ sessions' = sessions =>
          total_clicks' = total_clicks]_vars

\* C12: when the failsafe exception is raised at a step of a click-loop
\* iteration, the driver performs no further click in that session.  For
\* AutoClicker: a thread that was in its loop when the exception was raised
\* clicks no more.
C12_NoClickAfterFailsafe ==
  \A t \in Threads : failsafed[t] => after_failsafe[t] = 0

(***************************************************************************)
(* Claims about one iteration of the click loop.                           *)
(***************************************************************************)
\* C13: in every iteration where anti-detection is disabled in the profile,
\* the duration slept after the click equals the profile's base_delay
\* exactly and no timing generator is invoked.
C13_RawDelayWithoutAntiDetect ==
  ~profile.anti_detect =>
    /\ iteration.timing_calls = 0
    /\ iteration.sleeps = 1 => iteration.delay = 10000 * profile.base_delay

\* an iteration without anti-detection that has clicked and slept 1 ms
C13_Witness ==
  /\ ~profile.anti_detect
  /\ profile.base_delay = DelayMin
  /\ wpc = "while"
  /\ total_clicks = 1
  /\ iteration.sleeps = 1
  /\ iteration.delay = 10000 * DelayMin

\* C14: in every iteration where human movement is enabled in the profile,
\* the driver obtains a path from the motion path generator and replays it
\* (all waypoints but the last, which the click itself reaches) through
\* the cursor-move primitive before clicking.
C14_PathReplayedWhenHumanMovement ==
  profile.human_movement /\ iteration.clicks = 1 =>
    /\ iteration.path_calls = 1
    /\ iteration.path_len >= 2
    /\ iteration.moves = iteration.path_len - 1

\* C15: every click of the loop is issued at exactly the target point
\* computed at the start of that iteration, never at the path's last
\* waypoint.
C15_ClickAtTarget ==
  iteration.clicks = 1 => iteration.click_at = iteration.click_pos

\* a click at the target after the replay of a path that ended beside it
C15_Witness ==
  /\ iteration.clicks = 1
  /\ iteration.path_calls = 1
  /\ iteration.moves > 0
  /\ iteration.path_end # iteration.click_pos
  /\ iteration.click_at = iteration.click_pos

\* C16: with random position enabled, the click target differs from the
\* current cursor position by at most position_radius pixels in each
\* coordinate.
C16_TargetWithinRadius ==
  profile.random_position /\ wpc \in {"move", "click", "sleep"} =>
    \A k \in 1..2 :
      Abs(iteration.click_pos[k] - iteration.current_pos[k]) <= profile.position_radius

\* a target exactly position_radius pixels to the right of the cursor, and
\* one that truncation pulled inside the circle
C16_Witness ==
  /\ profile.random_position
  /\ profile.position_radius = RadiusMax
  /\ wpc = "click"
  /\ \/ iteration.click_pos[1] - iteration.current_pos[1] = RadiusMax
     \/ /\ iteration.click_pos[1] - iteration.current_pos[1] = 70
        /\ iteration.click_pos[2] - iteration.current_pos[2] = -70

\* C17: no call of generate_movement_path or generate_timing_delay modifies
\* the generator's state: the two pools are the same before and after any
\* sequence of calls, calls interleaved from several threads included.
C17_PoolsUnchanged ==
  /\ movement_patterns = load_movement_patterns
  /\ timing_variance = load_timing_patterns

\* one thread has returned from generate_movement_path while another is
\* inside a pattern of generate_timing_delay
C17_Witness ==
  \E t, u \in Callers :
    /\ calls[t].pc = "returned"
    /\ calls[t].method = "generate_movement_path"
    /\ calls[u].pc = "pattern"
    /\ calls[u].method = "generate_timing_delay"

Between(x, a, b) == (a <= x /\ x <= b) \/ (b <= x /\ x <= a)

\* C19: the eased-acceleration pattern adds no positional noise: its first
\* waypoint equals start, its last waypoint equals end, and along the path
\* each coordinate moves monotonically from start's value to end's value
\* without leaving the interval between them.
C19_AccelerationMonotone ==
  /\ [](pattern = "acceleration" /\ path_len = 1 => path_last = start)
  /\ [](pattern = "acceleration" /\ gpc = "returned" => path_last = end)
  /\ [][pattern = "acceleration" /\ path_len >= 1 /\ path_len' = path_len + 1 =>
          \A k \in 1..2 :
            /\ Between(path_last'[k], start[k], end[k])
            /\ Between(path_last'[k], path_last[k], end[k])]_vars

\* a returned acceleration path of 13 waypoints across the coordinate range
C19_Witness ==
  /\ pattern = "acceleration"
  /\ gpc = "returned"
  /\ path_len = 13
  /\ start = <<MaxCoord, -MaxCoord>>
  /\ end = <<-MaxCoord, MaxCoord>>
  /\ path_last = end

\* C20: for every base_delay >= 0 the distraction pattern returns a value
\* either in [0.8 x base_delay, 1.2 x base_delay] or in
\* [2 x base_delay, 5 x base_delay], never one strictly between 1.2 x and
\* 2 x base_delay (delay is in 1/10000 ms, base_delay in ms).
C20_DistractionRanges ==
  timing = "distraction" /\ tpc = "returned" =>
    \/ 8000 * base_delay <= delay /\ delay <= 12000 * base_delay
    \/ 20000 * base_delay <= delay /\ delay <= 50000 * base_delay

\* a distracted call with the default delay that returned twice the delay
C20_Witness ==
  /\ timing = "distraction"
  /\ tpc = "returned"
  /\ base_delay = DelayDefault
  /\ delay = 20000 * DelayDefault

\* C21: a click loop of a profile with max_clicks > 0 eventually ends; when
\* neither an exception, a stop request nor the duration limit has ended
\* it, it ends at the click limit check after exactly max_clicks clicks.
C21_LoopTerminates ==
  /\ (wpc = "while" /\ profile.max_clicks > 0) ~> (wpc = "done")
  /\ [](LoopLeft /\ profile.max_clicks > 0 =>
          \/ exit_reason \in {"failsafe", "error", "stop", "duration_limit"}
          \/ exit_reason = "click_limit" /\ total_clicks = profile.max_clicks)

\* a session that ended at the click limit after MaxClicks clicks
C21_Witness ==
  /\ wpc = "done"
  /\ exit_reason = "click_limit"
  /\ profile.max_clicks = MaxClicks
  /\ total_clicks = MaxClicks

\* C22: on every exit path of ClickWorker.start_clicking (click limit,
\* duration limit, stop request, failsafe, any other exception) finished is
\* emitted exactly once per run, and is_running is already False when it
\* is emitted.
C22_FinishedOnce ==
  /\ finished = (IF wpc = "done" THEN 1 ELSE 0)
  /\ wpc \in {"emit", "done"} => ~is_running
  /\ LoopLeft => exit_reason \in {"click_limit", "duration_limit", "stop",
                                  "failsafe", "error"}

\* a run ended by the failsafe exception that has emitted finished
C22_Witness ==
  /\ wpc = "done"
  /\ exit_reason = "failsafe"
  /\ finished = 1
  /\ ~is_running

\* C23: a stop request is never lost: once stop_clicking() has been called
\* on a started session, also before the worker thread has entered its
\* loop, the request stays pending and the session ends.
C23_StopNeverLost ==
  /\ [][should_stop => should_stop']_vars
  /\ should_stop ~> LoopLeft

\* C24: the hesitation pattern never divides by zero: for every drawn step
\* count (15..25) and hesitation_points (1..3) the modulus
\* steps // hesitation_points of the pause test is at least 5.
C24_HesitationModulus ==
  pattern = "hesitation" /\ gpc \in {"loop", "returned"} =>
    /\ steps \in 15..25
    /\ draw.hesitation_points \in 1..3
    /\ steps \div draw.hesitation_points >= 5

\* the smallest modulus: 15 steps and 3 hesitation points, after the pause
\* at waypoint 5
C24_Witness ==
  /\ pattern = "hesitation"
  /\ gpc = "loop"
  /\ steps = 15
  /\ draw.hesitation_points = 3
  /\ i = 6
  /\ pauses = 2

\* C27: at most one cloud synchronization is in progress at any time: no
\* second sync thread is started while one has been started and has not
\* finished, whatever the interleaving of start_sync and auto_sync with
\* the sync thread.
C27_AtMostOneSync ==
  Cardinality({t \in SyncThreads : spc[t] \notin {"none", "done"}}) <= 1

(***************************************************************************)
(* Claims about the macro player.                                          *)
(***************************************************************************)

\* C25: a macro playback that is not stopped executes the actions in list
\* order, loop_count times over, loop_count x len(actions) executions in
\* all (none when loop_count <= 0), and then ends with is_playing False:
\* its thread reaches the end of _play_actions.
C25_PlaybackRunsAllLoops ==
  ~stop_called =>
    \A t \in Players :
      /\ ppc[t] # "dead"
      /\ in_order[t]
      /\ ppc[t] \in {"emit", "done"} =>
           executed[t] = (IF loop_count > 0 THEN loop_count ELSE 0) * Len(actions)

\* C26: for each macro playback that was started, playback_stopped is
\* emitted exactly once, whether the playback ends by itself or through
\* stop_playback(), under every interleaving of stop_playback() with the
\* playback thread.
C26_StoppedOnce ==
  \A t \in Players :
    /\ stops_emitted[t] <= 1
    /\ ppc[t] = "done" /\ ~stopping => stops_emitted[t] = 1

(***************************************************************************)
(* Claims about the plugin manager, the scheduler and the settings.        *)
(***************************************************************************)

\* C28: after any sequence of load_plugin, unload_plugin, reload_plugin and
\* save_plugin_config calls, successful or failing, the registries
\* plugins, plugin_info and plugin_configs hold the same plugin names.
C28_RegistriesAgree ==
  /\ plugins = plugin_info
  /\ plugin_info = {n \in PluginNames : plugin_configs[n] # "absent"}

\* the days a repeat interval lasts; a custom interval lasts a day at least
RepeatDays(repeat_interval) ==
  IF repeat_interval = "custom" THEN 1 ELSE IntervalDays(repeat_interval)

\* C29: once an enabled task has been triggered by a check, later checks do
\* not trigger it again until its repeat interval has elapsed; a one-time
\* task (no recognised repeat interval) is triggered at most once ever and
\* is disabled afterwards.
C29_NoEarlyTrigger ==
  \A k \in 1..Len(tasks) :
    IF tasks[k].repeat_interval = "once"
      THEN /\ tasks[k].triggers <= 1
           /\ tasks[k].triggers = 1 => ~tasks[k].enabled
      ELSE tasks[k].gap = -1 \/ tasks[k].gap >= RepeatDays(tasks[k].repeat_interval)

\* C30: after any sequence of set_click_delay and set_click_button calls
\* click_delay is at least 0.01 seconds and click_button is one of 'left',
\* 'right', 'middle'; a set_click_button call with any other value leaves
\* click_button unchanged.
C30_SettingsValid ==
  /\ ~click_delay.nan
  /\ click_delay.ms >= 10
  /\ click_button \in ValidButtons
  /\ button_call.arg \notin ValidButtons => click_button = button_call.before

\* a delay below 0.01 was raised to it, and an invalid button was refused
\* after the button had been set to 'right'
C30_Witness ==
  /\ click_delay = MinDelay
  /\ button_call = [arg |-> "LEFT", before |-> "right"]
  /\ click_button = "right"

====
